---- MODULE Spec2Model ----
(***************************************************************************)
(* Concurrent batch download engine of Gores-Map-Downloader.               *)
(*                                                                         *)
(* State: the shared DownloadState (src/src/types.rs), the App fields the  *)
(* download operations use (cancel_token, show_download_modal), the        *)
(* cancellation tokens and per-batch semaphores created by                 *)
(* download_selected / retry_failed_downloads / spawn_download_batch, the  *)
(* spawned worker tasks with their position inside download_map, the       *)
(* destination files on disk, the length of the catalog (App.maps), the    *)
(* clock read by the repaint throttle and the egui context's pending       *)
(* repaint request.                                                        *)
(*                                                                         *)
(* Atomicity: every `state.lock()` section of download_map is one step.    *)
(* sem.acquire(), the token check, the dest.exists() check and the first   *)
(* lock section (lines 147, 24-47) are one step (Start); the end of the    *)
(* response stream and fs::write are one step (both are local to the       *)
(* worker until the file appears); the permit is released in the step that *)
(* writes the terminal status (the worker only calls request_repaint and   *)
(* returns after it).  A finished worker leaves `workers`.  The UI thread  *)
(* runs a whole handler as one step.                                       *)
(***************************************************************************)
EXTENDS Integers, Sequences, FiniteSets, TLC

\* ---- bounds of the model ------------------------------------------------
NumMaps == 5         \* catalog entries (self.maps), ids 0..NumMaps-1
MaxSelect == 3       \* Spec: the user selects among the ids below MaxSelect
MaxWorkers == 3      \* Spec: workers spawned over a run (Submit and Retry together)
MaxBatches == 2      \* tokens created over a run
StaleBatches == 3    \* SpecStale: tokens created over a run
WideExtra == 1       \* SpecWide: workers spawned over a run beyond one full batch
MaxChunks == 1       \* data chunks a response body delivers before it ends
MaxExisting == 1     \* ids below this may have a destination file before the first batch
TickMs == 50         \* SpecRepaint: granularity of the clock, in milliseconds
MaxTimeMs == 150     \* SpecRepaint: the clock stops here
ReloadSelect == 2    \* SpecReload: the user selects among the ids below ReloadSelect
RepaintWorkers == 2  \* SpecRepaint: workers spawned over a run

\* the bound of a run: workers spawned and tokens created over it
RunCap(w, b) == [workers |-> w, batches |-> b]

\* ---- program constants --------------------------------------------------
SemaphorePermits == 4
RepaintIntervalMs == 100

Ids == 0 .. (NumMaps - 1)

VARIABLES
    downloads,            \* DownloadState.downloads: id -> status record ("None" = no entry)
    download_order,       \* DownloadState.download_order
    active_count,
    total_queued,
    completed_count,
    failed_count,
    skipped_count,
    cancelled_count,
    total_bytes,
    downloaded_bytes,
    show_download_modal,  \* App.show_download_modal
    cancel_token,         \* App.cancel_token: 0 = None, k = the token of the k-th batch
    raised,               \* tokens on which cancel() was called
    permits,              \* free permits of each batch's semaphore
    workers,              \* spawned worker tasks that have not returned
    spawned,              \* number of worker tasks spawned so far
    exists,               \* ids whose destination file exists on disk
    maps_len,             \* App.maps.len(): the catalog holds the ids below it
    repaint_requested,    \* egui Context: a repaint was requested since the last frame
    now,                  \* std::time::Instant::now(), in milliseconds
    last_progress,        \* the latest throttled progress repaint: when and by which task
    is_downloading        \* render_download_modal's local: its value and the batch it saw

store == <<downloads, download_order, active_count, total_queued, completed_count,
           failed_count, skipped_count, cancelled_count, total_bytes, downloaded_bytes>>
vars == <<downloads, download_order, active_count, total_queued, completed_count,
          failed_count, skipped_count, cancelled_count, total_bytes, downloaded_bytes,
          show_download_modal, cancel_token, raised, permits, workers, spawned, exists,
          maps_len, repaint_requested, now, last_progress, is_downloading>>

\* the catalog, the clock and the frame's view of the store; the repaint state of the
\* egui context
env == <<maps_len, now, is_downloading>>
paint == <<repaint_requested, last_progress>>

\* ---- DownloadStatus -----------------------------------------------------
NoEntry == [tag |-> "None", bytes |-> 0]
Pending == [tag |-> "Pending", bytes |-> 0]
Downloading(n) == [tag |-> "Downloading", bytes |-> n]
Complete == [tag |-> "Complete", bytes |-> 0]
Skipped == [tag |-> "Skipped", bytes |-> 0]
Cancelled == [tag |-> "Cancelled", bytes |-> 0]
Failed == [tag |-> "Failed", bytes |-> 0]

TerminalTags == {"Complete", "Skipped", "Cancelled", "Failed"}

\* ---- catalog ------------------------------------------------------------
\* map.size of catalog entry idx (0 = size unknown)
MapSize(idx) == (idx + 1) % 3

\* self.maps.get(idx) is Some
InCatalog(idx) == idx \in Ids /\ idx < maps_len

\* ---- helpers ------------------------------------------------------------
RECURSIVE SumSizes(_)
SumSizes(S) == IF S = {} THEN 0
               ELSE LET i == CHOOSE x \in S : TRUE
                    IN MapSize(i) + SumSizes(S \ {i})

RECURSIVE Ascending(_)
Ascending(S) == IF S = {} THEN <<>>
                ELSE LET m == CHOOSE x \in S : \A y \in S : x <= y
                     IN <<m>> \o Ascending(S \ {m})

RECURSIVE Descending(_)
Descending(S) == IF S = {} THEN <<>>
                 ELSE LET m == CHOOSE x \in S : \A y \in S : x >= y
                      IN <<m>> \o Descending(S \ {m})

\* iteration orders of the HashSet selected_indices the model explores
IterationOrders(S) == {Ascending(S), Descending(S)}

Range(s) == {s[k] : k \in 1 .. Len(s)}

\* is_downloading of render_download_modal
IsDownloading == active_count > 0 \/ \E i \in Ids : downloads[i].tag = "Pending"

NewWorker(b, idx, skip) ==
    [batch |-> b, idx |-> idx, skip |-> skip, pc |-> "queued", got |-> 0, early |-> FALSE,
     last_repaint |-> 0]

\* no throttled progress repaint was requested yet
\* no frame of the modal has run
NoFrame == [batch |-> 0, busy |-> FALSE]

NoProgress == [at |-> -1, batch |-> 0, idx |-> 0]

\* spawn_download_batch: one worker per task, one fresh semaphore for the batch
spawn_download_batch(b, ids, skip) ==
    /\ workers' = workers \cup {NewWorker(b, i, skip) : i \in ids}
    /\ spawned' = spawned + Cardinality(ids)
    /\ permits' = [k \in 1 .. b |-> IF k = b THEN SemaphorePermits ELSE permits[k]]

Init ==
    /\ downloads = [i \in Ids |-> NoEntry]
    /\ download_order = <<>>
    /\ active_count = 0
    /\ total_queued = 0
    /\ completed_count = 0
    /\ failed_count = 0
    /\ skipped_count = 0
    /\ cancelled_count = 0
    /\ total_bytes = 0
    /\ downloaded_bytes = 0
    /\ show_download_modal = FALSE
    /\ cancel_token = 0
    /\ raised = {}
    /\ permits = <<>>
    /\ workers = {}
    /\ spawned = 0
    /\ exists \in SUBSET {i \in Ids : i < MaxExisting}
    /\ maps_len = NumMaps
    /\ repaint_requested = FALSE
    /\ now = 0
    /\ last_progress = NoProgress
    /\ is_downloading = NoFrame

\* ---- UI thread ----------------------------------------------------------
\* App::download_selected with selected_indices = Range(order); cap bounds the run
download_selected(order, cap) ==
    LET maps == SelectSeq(order, InCatalog)
        ids == Range(maps)
        b == cancel_token + 1
    IN /\ order # <<>>
       /\ b <= cap.batches
       /\ spawned + Len(maps) <= cap.workers
       /\ cancel_token' = b
       /\ total_queued' = Len(maps)
       /\ completed_count' = 0
       /\ failed_count' = 0
       /\ skipped_count' = 0
       /\ cancelled_count' = 0
       /\ total_bytes' = SumSizes(ids)
       /\ downloaded_bytes' = 0
       /\ download_order' = maps
       /\ downloads' = [i \in Ids |-> IF i \in ids THEN Pending ELSE downloads[i]]
       /\ show_download_modal' = TRUE
       /\ spawn_download_batch(b, ids, TRUE)
       /\ UNCHANGED <<active_count, raised, exists, env, paint>>

\* Ctrl+D with a non-empty selection (main.rs 1745-1794): not guarded by the modal
DownloadShortcut(selections, cap) ==
    \E sel \in selections : \E order \in IterationOrders(sel) :
        download_selected(order, cap)

\* the Cancel button of the download modal
CancelButton ==
    /\ show_download_modal
    /\ IsDownloading
    /\ cancel_token # 0
    /\ cancel_token \notin raised
    /\ raised' = raised \cup {cancel_token}
    /\ workers' = {IF w.batch = cancel_token /\ w.pc \in {"queued", "sending"}
                   THEN [w EXCEPT !.early = TRUE] ELSE w : w \in workers}
    /\ UNCHANGED <<store, show_download_modal, cancel_token, permits, spawned, exists,
                   env, paint>>

IsFailedInCatalog(idx) == downloads[idx].tag = "Failed" /\ InCatalog(idx)

\* faulty variant: the retry resets every task of the batch, not only the Failed ones
retry_resets_whole_batch(cap) ==
    LET failed_maps == SelectSeq(download_order, IsFailedInCatalog)
        ids == Range(failed_maps)
        b == cancel_token + 1
    IN /\ failed_maps # <<>>
       /\ b <= cap.batches
       /\ spawned + Len(failed_maps) <= cap.workers
       /\ cancel_token' = b
       /\ failed_count' = 0
       /\ downloads' = [i \in Ids |-> IF i \in Range(download_order) THEN Pending
                                      ELSE downloads[i]]
       /\ spawn_download_batch(b, ids, FALSE)
       /\ UNCHANGED <<download_order, active_count, total_queued, completed_count,
                      skipped_count, cancelled_count, total_bytes, downloaded_bytes,
                      show_download_modal, raised, exists, env, paint>>

\* faulty variant: the retry replaces download_order by the retried sub-batch
retry_reorders(cap) ==
    LET failed_maps == SelectSeq(download_order, IsFailedInCatalog)
        ids == Range(failed_maps)
        b == cancel_token + 1
    IN /\ failed_maps # <<>>
       /\ b <= cap.batches
       /\ spawned + Len(failed_maps) <= cap.workers
       /\ cancel_token' = b
       /\ failed_count' = 0
       /\ download_order' = failed_maps
       /\ downloads' = [i \in Ids |-> IF i \in ids THEN Pending ELSE downloads[i]]
       /\ spawn_download_batch(b, ids, FALSE)
       /\ UNCHANGED <<active_count, total_queued, completed_count,
                      skipped_count, cancelled_count, total_bytes, downloaded_bytes,
                      show_download_modal, raised, exists, env, paint>>

\* App::retry_failed_downloads
retry_failed_downloads(cap) ==
    LET failed_maps == SelectSeq(download_order, IsFailedInCatalog)
        ids == Range(failed_maps)
        b == cancel_token + 1
    IN /\ failed_maps # <<>>
       /\ b <= cap.batches
       /\ spawned + Len(failed_maps) <= cap.workers
       /\ cancel_token' = b
       /\ failed_count' = 0
       /\ downloads' = [i \in Ids |-> IF i \in ids THEN Pending ELSE downloads[i]]
       /\ spawn_download_batch(b, ids, FALSE)
       /\ UNCHANGED <<download_order, active_count, total_queued, completed_count,
                      skipped_count, cancelled_count, total_bytes, downloaded_bytes,
                      show_download_modal, raised, exists, env, paint>>

\* the Retry Failed button of the download modal
RetryButton(cap) ==
    /\ show_download_modal
    /\ ~IsDownloading
    /\ failed_count > 0
    /\ retry_failed_downloads(cap)

\* App::close_download_modal, behind the Close button / modal dismissal
close_download_modal ==
    /\ show_download_modal' = FALSE
    /\ downloads' = [i \in Ids |-> NoEntry]
    /\ download_order' = <<>>
    /\ total_queued' = 0
    /\ completed_count' = 0
    /\ failed_count' = 0
    /\ skipped_count' = 0
    /\ cancelled_count' = 0
    /\ active_count' = 0
    /\ UNCHANGED <<total_bytes, downloaded_bytes, cancel_token, raised, permits,
                   workers, spawned, exists, env, paint>>

\* the Close button, or a click outside the modal: offered when nothing is downloading
CloseButton ==
    /\ show_download_modal
    /\ ~IsDownloading
    /\ close_download_modal

\* ---- worker tasks -------------------------------------------------------
Replace(w, v) == (workers \ {w}) \cup {v}

\* faulty variant: the permit is not given back when the worker returns
Return_LeaksPermit(w) ==
    /\ workers' = workers \ {w}
    /\ permits' = permits

\* the worker returns: it leaves the task set and its permit is dropped
Return(w) ==
    /\ workers' = workers \ {w}
    /\ permits' = [permits EXCEPT ![w.batch] = @ + 1]

\* faulty variant: the existing-file check runs before the cancellation check
StartCancelled_AfterSkipCheck(w) ==
    /\ w.batch \in raised
    /\ IF w.skip /\ w.idx \in exists
       THEN /\ downloads' = [downloads EXCEPT ![w.idx] = Skipped]
            /\ skipped_count' = skipped_count + 1
            /\ downloaded_bytes' = downloaded_bytes + MapSize(w.idx)
            /\ UNCHANGED cancelled_count
       ELSE /\ IF downloads[w.idx].tag = "Pending"
               THEN /\ downloads' = [downloads EXCEPT ![w.idx] = Cancelled]
                    /\ cancelled_count' = cancelled_count + 1
               ELSE UNCHANGED <<downloads, cancelled_count>>
            /\ UNCHANGED <<skipped_count, downloaded_bytes>>
    /\ workers' = workers \ {w}
    /\ UNCHANGED <<download_order, active_count, total_queued, completed_count,
                   failed_count, total_bytes, permits, last_progress>>
    /\ repaint_requested' = TRUE

\* download_map lines 24-32, entered with a permit: the token is already cancelled
StartCancelled(w) ==
    /\ w.batch \in raised
    /\ IF downloads[w.idx].tag = "Pending"
       THEN /\ downloads' = [downloads EXCEPT ![w.idx] = Cancelled]
            /\ cancelled_count' = cancelled_count + 1
       ELSE UNCHANGED <<downloads, cancelled_count>>
    /\ workers' = workers \ {w}
    /\ UNCHANGED <<download_order, active_count, total_queued, completed_count,
                   failed_count, skipped_count, total_bytes, downloaded_bytes, permits,
                   last_progress>>
    /\ repaint_requested' = TRUE

\* faulty variant: the skip branch forgets to attribute the expected size
StartSkip_NoBytes(w) ==
    /\ w.batch \notin raised
    /\ w.skip /\ w.idx \in exists
    /\ downloads' = [downloads EXCEPT ![w.idx] = Skipped]
    /\ skipped_count' = skipped_count + 1
    /\ workers' = workers \ {w}
    /\ UNCHANGED <<download_order, active_count, total_queued, completed_count,
                   failed_count, cancelled_count, total_bytes, downloaded_bytes, permits,
                   last_progress>>
    /\ repaint_requested' = TRUE

\* download_map lines 34-41: skip_existing && dest.exists()
StartSkip(w) ==
    /\ w.batch \notin raised
    /\ w.skip /\ w.idx \in exists
    /\ downloads' = [downloads EXCEPT ![w.idx] = Skipped]
    /\ skipped_count' = skipped_count + 1
    /\ downloaded_bytes' = downloaded_bytes + MapSize(w.idx)
    /\ workers' = workers \ {w}
    /\ UNCHANGED <<download_order, active_count, total_queued, completed_count,
                   failed_count, cancelled_count, total_bytes, permits, last_progress>>
    /\ repaint_requested' = TRUE

\* download_map lines 43-50: Downloading(0, 0), then client.get(url).send()
StartDownload(w) ==
    /\ w.batch \notin raised
    /\ ~(w.skip /\ w.idx \in exists)
    /\ downloads' = [downloads EXCEPT ![w.idx] = Downloading(0)]
    /\ active_count' = active_count + 1
    /\ workers' = Replace(w, [w EXCEPT !.pc = "sending"])
    /\ permits' = [permits EXCEPT ![w.batch] = @ - 1]
    /\ UNCHANGED <<download_order, total_queued, completed_count, failed_count,
                   skipped_count, cancelled_count, total_bytes, downloaded_bytes,
                   last_progress>>
    /\ repaint_requested' = TRUE

\* faulty variant: download_map starts without waiting for a permit
Start_NoAcquire(w) ==
    /\ w.pc = "queued"
    /\ \/ StartCancelled(w)
       \/ StartSkip(w)
       \/ StartDownload(w)
    /\ UNCHANGED <<show_download_modal, cancel_token, raised, spawned, exists, env>>

\* sem.acquire() succeeds and download_map runs up to its first await or return
Start(w) ==
    /\ w.pc = "queued"
    /\ permits[w.batch] > 0
    /\ \/ StartCancelled(w)
       \/ StartSkip(w)
       \/ StartDownload(w)
    /\ UNCHANGED <<show_download_modal, cancel_token, raised, spawned, exists, env>>

\* faulty variant: a Failed branch forgets active_count -= 1
WriteFailed_KeepsActive(w) ==
    /\ downloads' = [downloads EXCEPT ![w.idx] = Failed]
    /\ failed_count' = failed_count + 1
    /\ Return(w)
    /\ UNCHANGED <<download_order, active_count, total_queued, completed_count,
                   skipped_count, cancelled_count, total_bytes, downloaded_bytes,
                   last_progress>>
    /\ repaint_requested' = TRUE

\* faulty variant: a failure aborts the batch's other tasks
WriteFailed_AbortsSiblings(w) ==
    /\ downloads' = [downloads EXCEPT ![w.idx] = Failed]
    /\ failed_count' = failed_count + 1
    /\ active_count' = active_count - 1
    /\ workers' = {v \in workers : v.batch # w.batch}
    /\ permits' = [permits EXCEPT ![w.batch] = @ + 1]
    /\ UNCHANGED <<download_order, total_queued, completed_count, skipped_count,
                   cancelled_count, total_bytes, downloaded_bytes, last_progress>>
    /\ repaint_requested' = TRUE

\* a lock section that ends the worker with Failed (lines 83-90, 103-121)
WriteFailed(w) ==
    /\ downloads' = [downloads EXCEPT ![w.idx] = Failed]
    /\ failed_count' = failed_count + 1
    /\ active_count' = active_count - 1
    /\ Return(w)
    /\ UNCHANGED <<download_order, total_queued, completed_count, skipped_count,
                   cancelled_count, total_bytes, downloaded_bytes, last_progress>>
    /\ repaint_requested' = TRUE

\* send().await returns: a 2xx response, another status, or a transport error
SendReturns(w) ==
    /\ w.pc = "sending"
    /\ \E r \in {"success", "http_status", "transport_error"} :
         IF r = "success"
         THEN /\ workers' = Replace(w, [w EXCEPT !.pc = "stream", !.last_repaint = now])
              /\ UNCHANGED <<store, permits, paint>>
         ELSE WriteFailed(w)
    /\ UNCHANGED <<show_download_modal, cancel_token, raised, spawned, exists, env>>

\* faulty variant: on cancellation the bytes received so far are written to the file
ObserveCancel_WritesPartial(w) ==
    /\ w.pc = "stream"
    /\ w.batch \in raised
    /\ downloads' = [downloads EXCEPT ![w.idx] = Cancelled]
    /\ cancelled_count' = cancelled_count + 1
    /\ active_count' = active_count - 1
    /\ exists' = exists \cup {w.idx}
    /\ Return(w)
    /\ UNCHANGED <<download_order, total_queued, completed_count, failed_count,
                   skipped_count, total_bytes, downloaded_bytes,
                   show_download_modal, cancel_token, raised, spawned,
                   env, last_progress>>
    /\ repaint_requested' = TRUE

\* select! arm token.cancelled() (lines 62-69)
ObserveCancel(w) ==
    /\ w.pc = "stream"
    /\ w.batch \in raised
    /\ downloads' = [downloads EXCEPT ![w.idx] = Cancelled]
    /\ cancelled_count' = cancelled_count + 1
    /\ active_count' = active_count - 1
    /\ Return(w)
    /\ UNCHANGED <<download_order, total_queued, completed_count, failed_count,
                   skipped_count, total_bytes, downloaded_bytes,
                   show_download_modal, cancel_token, raised, spawned, exists,
                   env, last_progress>>
    /\ repaint_requested' = TRUE

\* select! arm stream.next() (lines 70-93) yields a chunk or an error; select! is
\* unbiased, so a ready chunk can win against a cancelled token
StreamNext(w) ==
    /\ w.pc = "stream"
    /\ \E chunk \in {"data", "error"} :
         IF chunk = "data"
         THEN /\ w.got < MaxChunks
              /\ downloads' = [downloads EXCEPT ![w.idx] = Downloading(w.got + 1)]
              /\ IF now - w.last_repaint >= RepaintIntervalMs
                 THEN /\ repaint_requested' = TRUE
                      /\ last_progress' = [at |-> now, batch |-> w.batch, idx |-> w.idx]
                      /\ workers' = Replace(w, [w EXCEPT !.got = w.got + 1,
                                                          !.last_repaint = now])
                 ELSE /\ UNCHANGED paint
                      /\ workers' = Replace(w, [w EXCEPT !.got = w.got + 1])
              /\ UNCHANGED <<download_order, active_count, total_queued, completed_count,
                             failed_count, skipped_count, cancelled_count, total_bytes,
                             downloaded_bytes, permits>>
         ELSE WriteFailed(w)
    /\ UNCHANGED <<show_download_modal, cancel_token, raised, spawned, exists, env>>

\* stream.next() yields None (line 91), then std::fs::write(&dest, &bytes_vec)
\* (line 97) and, when it fails, lines 104-107
StreamEnd(w) ==
    /\ w.pc = "stream"
    /\ \/ /\ exists' = exists \cup {w.idx}
          /\ workers' = Replace(w, [w EXCEPT !.pc = "written"])
          /\ UNCHANGED <<store, permits, paint>>
       \/ /\ exists' \in {exists, exists \cup {w.idx}}
          /\ WriteFailed(w)
    /\ UNCHANGED <<show_download_modal, cancel_token, raised, spawned, env>>

\* lines 98-102: the write succeeded
WriteComplete(w) ==
    /\ w.pc = "written"
    /\ downloads' = [downloads EXCEPT ![w.idx] = Complete]
    /\ completed_count' = completed_count + 1
    /\ active_count' = active_count - 1
    /\ downloaded_bytes' = downloaded_bytes + MapSize(w.idx)
    /\ Return(w)
    /\ UNCHANGED <<download_order, total_queued, failed_count, skipped_count,
                   cancelled_count, total_bytes,
                   show_download_modal, cancel_token, raised, spawned, exists,
                   env, last_progress>>
    /\ repaint_requested' = TRUE

\* one step of download_map / the spawned task around it
WorkerStep(w) ==
    \/ Start(w)
    \/ SendReturns(w)
    \/ ObserveCancel(w)
    \/ StreamNext(w)
    \/ StreamEnd(w)
    \/ WriteComplete(w)

\* selections of the general specification: the non-empty subsets of 0..MaxSelect-1
Selections == {S \in SUBSET Ids : S # {} /\ \A i \in S : i < MaxSelect}

Next ==
    \/ DownloadShortcut(Selections, RunCap(MaxWorkers, MaxBatches))
    \/ CancelButton
    \/ RetryButton(RunCap(MaxWorkers, MaxBatches))
    \/ CloseButton
    \/ \E w \in workers : WorkerStep(w)

Spec == Init /\ [][Next]_vars

\* a wide batch: Ctrl+A then Ctrl+D downloads the whole catalog
WideSelections == {Ids}

NextWide ==
    \/ DownloadShortcut(WideSelections, RunCap(NumMaps + WideExtra, MaxBatches))
    \/ CancelButton
    \/ RetryButton(RunCap(NumMaps + WideExtra, MaxBatches))
    \/ CloseButton
    \/ \E w \in workers : WorkerStep(w)

SpecWide == Init /\ [][NextWide]_vars

\* an unresponsive server: no send().await ever returns, whole-catalog batches
NextHang ==
    \/ DownloadShortcut(WideSelections, RunCap(NumMaps * MaxBatches, MaxBatches))
    \/ CancelButton
    \/ CloseButton
    \/ \E w \in workers : Start(w)

SpecHang == Init /\ [][NextHang]_vars

\* tokio schedules every spawned task that can run
WorkerFairness == WF_vars(\E w \in workers : WorkerStep(w))

FairSpec == Spec /\ WorkerFairness

\* the unresponsive server with a single whole-catalog batch, fairly scheduled
NextHangOne ==
    \/ DownloadShortcut(WideSelections, RunCap(NumMaps, MaxBatches))
    \/ CancelButton
    \/ CloseButton
    \/ \E w \in workers : Start(w)

FairHang == Init /\ [][NextHangOne]_vars /\ WF_vars(\E w \in workers : Start(w))

\* ---- catalog reload ------------------------------------------------------
\* lengths of the catalog that the database auto-update may install
ReloadLens == {0, 1, NumMaps}

\* App::poll_update_results: `self.maps = maps` after a database auto-update; the
\* selection and the download state are left as they are
poll_update_results ==
    /\ \E n \in ReloadLens \ {maps_len} : maps_len' = n
    /\ UNCHANGED <<store, show_download_modal, cancel_token, raised, permits, workers,
                   spawned, exists, repaint_requested, now, last_progress,
                   is_downloading>>

\* selections of SpecReload: made while the catalog held every id
ReloadSelections == {S \in SUBSET Ids : S # {} /\ \A i \in S : i < ReloadSelect}

NextReload ==
    \/ DownloadShortcut(ReloadSelections, RunCap(MaxWorkers, MaxBatches))
    \/ CancelButton
    \/ RetryButton(RunCap(MaxWorkers, MaxBatches))
    \/ CloseButton
    \/ poll_update_results
    \/ \E w \in workers : WorkerStep(w)

SpecReload == Init /\ [][NextReload]_vars

\* ---- one map, three batches ----------------------------------------------
\* Ctrl+D twice on the same map, then Retry Failed: room for a worker of the first
\* batch to outlive the second batch
StaleSelections == {{0}}

NextStale ==
    \/ DownloadShortcut(StaleSelections, RunCap(MaxWorkers, StaleBatches))
    \/ CancelButton
    \/ RetryButton(RunCap(MaxWorkers, StaleBatches))
    \/ CloseButton
    \/ \E w \in workers : WorkerStep(w)

SpecStale == Init /\ [][NextStale]_vars

\* ---- the modal's frame -----------------------------------------------------
\* render_download_modal reads the store under the lock (lines 2928-2944) and keeps
\* is_downloading as a local; the buttons are drawn and handled later in the frame,
\* after the lock is dropped, while the workers run on the runtime's threads
render_download_modal ==
    /\ show_download_modal
    /\ is_downloading' = [batch |-> cancel_token, busy |-> IsDownloading]
    /\ UNCHANGED <<store, show_download_modal, cancel_token, raised, permits, workers,
                   spawned, exists, maps_len, now, paint>>

\* the Close button is clicked in a frame whose is_downloading was false
CloseClicked ==
    /\ show_download_modal
    /\ is_downloading = [batch |-> cancel_token, busy |-> FALSE]
    /\ close_download_modal

NextFrame ==
    \/ DownloadShortcut(StaleSelections, RunCap(MaxWorkers, MaxBatches))
    \/ render_download_modal
    \/ CloseClicked
    \/ \E w \in workers : WorkerStep(w)

SpecFrame == Init /\ [][NextFrame]_vars

\* ---- clock and frames ----------------------------------------------------
\* time passes
Tick ==
    /\ now + TickMs <= MaxTimeMs
    /\ now' = now + TickMs
    /\ UNCHANGED <<store, show_download_modal, cancel_token, raised, permits, workers,
                   spawned, exists, maps_len, repaint_requested, last_progress,
                   is_downloading>>

\* egui runs a frame (App::update) and thereby serves the pending repaint request
Frame ==
    /\ repaint_requested
    /\ repaint_requested' = FALSE
    /\ UNCHANGED <<store, show_download_modal, cancel_token, raised, permits, workers,
                   spawned, exists, maps_len, now, last_progress, is_downloading>>

\* a batch of two maps that are not on disk
RepaintSelections == {{1, 2}}

NextRepaint ==
    \/ DownloadShortcut(RepaintSelections, RunCap(RepaintWorkers, MaxBatches))
    \/ CancelButton
    \/ CloseButton
    \/ Tick
    \/ Frame
    \/ \E w \in workers : WorkerStep(w)

SpecRepaint == Init /\ [][NextRepaint]_vars

\* ---- properties ---------------------------------------------------------
TypeOK ==
    /\ \A i \in Ids : downloads[i].tag \in TerminalTags \cup {"None", "Pending", "Downloading"}
    /\ active_count >= 0
    /\ \A b \in 1 .. cancel_token : permits[b] \in 0 .. SemaphorePermits
    /\ \A w \in workers : w.pc \in {"queued", "sending", "stream", "written"}

PendingIds == {i \in Ids : downloads[i].tag = "Pending"}

\* a step of the UI thread that installs a batch (Submit, RetryFailed) or clears the store
ReplacingStep == cancel_token' # cancel_token \/ show_download_modal' # show_download_modal

\* workers of batch b that hold one of its permits: they have set their task to
\* Downloading and have not returned
InFlight(b) == {w \in workers : w.batch = b /\ w.pc # "queued"}

\* C1: once an id's status is Complete, Skipped, Cancelled or Failed, only a new
\* Submit, a RetryFailed or a Clear changes it again; no worker step does.
C1_TerminalFinality ==
    [][\A i \in Ids :
         (downloads[i].tag \in TerminalTags /\ ~ReplacingStep) => downloads'[i] = downloads[i]]_vars

\* C2: in every reachable state, every batch has at most 4 workers holding a permit
\* of its semaphore, and these are exactly its tasks that are being downloaded.
C2_BatchBound ==
    \A b \in 1 .. cancel_token :
        /\ Cardinality(InFlight(b)) <= 4
        /\ permits[b] = SemaphorePermits - Cardinality(InFlight(b))

\* a full batch: four workers in flight, the fifth waits for a permit
C2_Witness ==
    \E b \in 1 .. cancel_token :
        /\ Cardinality(InFlight(b)) = 4
        /\ permits[b] = 0
        /\ \E w \in workers : w.batch = b /\ w.pc = "queued"

\* C3: over all batches together, at most 4 transfers are in flight at any time.
C3_SystemBound ==
    Cardinality({w \in workers : w.pc \in {"sending", "stream"}}) <= 4

\* C4: completed + failed + skipped + cancelled + active + pending = total_queued
\* in every reachable state.
C4_AggregateConsistency ==
    completed_count + failed_count + skipped_count + cancelled_count + active_count
        + Cardinality(PendingIds) = total_queued

\* C5: after Cancel() and once every worker has finished, every task of the batch
\* is terminal, and a task that had not started reading the response body when
\* Cancel() was called never becomes Complete.
C5_CancelCompleteness ==
    /\ []((cancel_token \in raised /\ workers = {} /\ show_download_modal) =>
            \A k \in 1 .. Len(download_order) :
                downloads[download_order[k]].tag \in TerminalTags)
    /\ [][\A w \in workers :
            (w.early /\ w \notin workers') => downloads'[w.idx].tag # "Complete"]_vars

BatchIds == Range(download_order)

\* C6: 5 tasks are submitted to a server that never responds and Cancel() is
\* called: eventually all 5 are Cancelled, and none is ever Complete.
C6_CancelUnresponsive ==
    /\ (Len(download_order) = 5 /\ BatchIds \cap exists = {} /\ cancel_token \in raised)
           ~> (\A i \in BatchIds : downloads[i].tag = "Cancelled")
    /\ [](\A i \in Ids : downloads[i].tag # "Complete")

Quiescent ==
    /\ active_count = 0
    /\ PendingIds = {}
    /\ \A i \in Ids : downloads[i].tag \in TerminalTags \cup {"None"}

Spawned == IF spawned' > spawned THEN workers' \ workers ELSE {}

\* the step is a RetryFailed() call: it spawns workers with skip_existing = false
RetryStep == \E w \in Spawned : ~w.skip

\* worker w takes a step of download_map
Moves(w) == \A v \in workers' : v.batch = w.batch /\ v.idx = w.idx => v.pc # w.pc \/ v.got # w.got

\* C8: RetryFailed() changes the status only of ids that are Failed when it is
\* called and leaves completed_count, skipped_count and cancelled_count alone; the
\* workers it spawns run for those ids and each changes only its own id's status.
C8_RetryScope ==
    [][/\ RetryStep =>
            /\ \A i \in Ids : downloads'[i] # downloads[i] => downloads[i].tag = "Failed"
            /\ \A w \in Spawned : downloads[w.idx].tag = "Failed"
            /\ UNCHANGED <<completed_count, skipped_count, cancelled_count>>
       /\ \A w \in workers : (~w.skip /\ Moves(w)) =>
            \A i \in Ids \ {w.idx} : downloads'[i] = downloads[i]]_vars

\* a retry worker runs while another id of the batch is Complete
C8_Witness ==
    \E w \in workers : ~w.skip /\ w.pc # "queued" /\
        \E i \in Ids \ {w.idx} : downloads[i].tag = "Complete"

\* worker w takes its first step and returns in it, without Downloading or a request
ReturnsAtStart(w) == w.pc = "queued" /\ Moves(w) /\ \A v \in workers' : v.batch # w.batch \/ v.idx # w.idx

SkipEffect(w) ==
    /\ downloads'[w.idx] = Skipped
    /\ skipped_count' = skipped_count + 1
    /\ downloaded_bytes' = downloaded_bytes + MapSize(w.idx)
    /\ active_count' = active_count

\* C9 as stated: a task with skip_if_exists whose destination exists reaches Skipped
\* without Downloading and without an HTTP request; skipped_count grows by one and
\* downloaded_bytes by its expected size.
C9_SkipExisting_AsStated ==
    [][\A w \in workers : (w.pc = "queued" /\ Moves(w) /\ w.skip /\ w.idx \in exists) =>
            ReturnsAtStart(w) /\ SkipEffect(w)]_vars

\* C9 amended: the same, for a worker that starts before its batch's token is raised;
\* when the token is already raised the worker still returns at once, without
\* Downloading and without a request, and sets a Pending task to Cancelled.
C9_SkipExisting ==
    [][\A w \in workers : (w.pc = "queued" /\ Moves(w) /\ w.skip /\ w.idx \in exists) =>
            /\ ReturnsAtStart(w)
            /\ IF w.batch \in raised
               THEN /\ UNCHANGED <<skipped_count, downloaded_bytes, active_count>>
                    /\ downloads'[w.idx] = IF downloads[w.idx].tag = "Pending"
                                           THEN Cancelled ELSE downloads[w.idx]
               ELSE SkipEffect(w)]_vars

\* a task with an existing destination has been Skipped
C9_Witness ==
    \E i \in exists : downloads[i].tag = "Skipped" /\ skipped_count >= 1

CountTag(t) == Cardinality({i \in BatchIds : downloads[i].tag = t})

\* C10: when a batch has run to completion without Cancel(), completed, failed and
\* skipped count the tasks that ended Complete, Failed and Skipped, active is 0 and
\* no id is Pending; RetryFailed() spawns workers for exactly the Failed ids.
C10_BatchOutcome ==
    /\ []((workers = {} /\ show_download_modal /\ raised = {}) =>
            /\ completed_count = CountTag("Complete")
            /\ failed_count = CountTag("Failed")
            /\ skipped_count = CountTag("Skipped")
            /\ completed_count + failed_count + skipped_count = total_queued
            /\ active_count = 0
            /\ PendingIds = {})
    /\ [][RetryStep =>
            {w.idx : w \in Spawned} = {i \in BatchIds : downloads[i].tag = "Failed"}]_vars

\* C11: in every reachable state the bytes attributed to Complete and Skipped tasks
\* do not exceed the batch's expected total: downloaded_bytes <= total_bytes
\* (every MapSize is non-negative).
C11_ByteBound == downloaded_bytes <= total_bytes

\* the status changes the task state machine allows a worker to make
WorkerLegal(old, new) ==
    \/ old = "Pending" /\ new \in {"Downloading", "Cancelled", "Skipped"}
    \/ old = "Downloading" /\ new \in {"Downloading", "Complete", "Failed", "Cancelled"}

\* the status changes Submit, RetryFailed and Clear may make: a new entry or a finished
\* task becomes Pending, a finished task's entry is removed
BatchLegal(old, new) ==
    \/ old \in TerminalTags \cup {"None"} /\ new = "Pending"
    \/ old \in TerminalTags /\ new = "None"

\* C12: every change of an id's status follows Pending -> Downloading ->
\* {Complete, Failed, Cancelled}, Pending -> Cancelled or Pending -> Skipped (progress
\* updates Downloading -> Downloading allowed); a batch operation only makes a new or
\* finished task Pending or removes a finished entry.  In particular never
\* Downloading -> Pending, Downloading -> Skipped, Pending -> Complete, Pending -> Failed.
C12_LegalTransitions ==
    [][\A i \in Ids :
         downloads'[i] # downloads[i] =>
             \/ WorkerLegal(downloads[i].tag, downloads'[i].tag)
             \/ BatchLegal(downloads[i].tag, downloads'[i].tag)]_vars

\* C13: every Submit and every RetryFailed installs a fresh token that is not raised
\* and hands it to the workers it spawns; and a worker of an earlier batch, acting on
\* its own raised token, never turns the task of a later, uncancelled batch Cancelled.
C13_BatchScopedCancel ==
    [][/\ spawned' > spawned =>
            /\ cancel_token' # cancel_token
            /\ cancel_token' \notin raised'
            /\ \A w \in workers' \ workers : w.batch = cancel_token'
       /\ \A w \in workers :
            (Moves(w) /\ downloads[w.idx].tag # "Cancelled"
                      /\ downloads'[w.idx].tag = "Cancelled")
            => ~\E v \in workers :
                   v.idx = w.idx /\ v.batch > w.batch /\ v.batch \notin raised]_vars

\* the step in which worker w ends its task with Failed
Fails(w) ==
    /\ w.pc # "queued"
    /\ \A v \in workers' : v.batch # w.batch \/ v.idx # w.idx
    /\ downloads'[w.idx] = Failed

\* C14: the step in which one task ends Failed changes no other id's status, removes or
\* alters no other worker, raises no token and returns the permit, so its siblings can
\* go on; and after a failure every remaining worker still finishes.
C14_FailureIsolation ==
    /\ [][\A w \in workers :
            Fails(w) =>
                /\ \A i \in Ids \ {w.idx} : downloads'[i] = downloads[i]
                /\ workers' = workers \ {w}
                /\ permits'[w.batch] = permits[w.batch] + 1
                /\ UNCHANGED <<raised, cancel_token, completed_count, skipped_count,
                               cancelled_count>>]_vars
    /\ (failed_count > 0) ~> (workers = {})

\* a task of the current batch is Failed while a sibling of the same batch is still
\* reading its response
C14_Witness ==
    \E i \in BatchIds :
        /\ downloads[i].tag = "Failed"
        /\ \E w \in workers : w.batch = cancel_token /\ w.idx # i /\ w.pc = "stream"

\* a step that spawns no worker, moves no worker, and is neither Cancel nor Clear
SpawnsNothing ==
    /\ spawned' = spawned
    /\ workers' = workers
    /\ raised' = raised
    /\ ~(show_download_modal /\ ~show_download_modal')

\* C15: a Submit whose batch of task descriptors is empty (nothing selected, or no
\* selected index resolves to a catalog entry) is a no-op: a step that spawns nothing
\* leaves the status store, the cancellation token and the workers unchanged.
C15_EmptyBatchNoOp ==
    [][SpawnsNothing => UNCHANGED <<store, cancel_token, show_download_modal, workers>>]_vars

\* a step of download_selected that spawned workers (skip_existing = true)
SubmitStep == \E w \in Spawned : w.skip

\* a step of download_selected, whether or not any selected index resolved
AnySubmit == cancel_token' # cancel_token /\ ~RetryStep

\* C16: after Submit, download_order is the batch's ids in the order the selection was
\* iterated; no worker step, no Cancel and no RetryFailed changes download_order (only a
\* new Submit or a Clear replaces it).
C16_OrderStable ==
    [][/\ AnySubmit =>
            /\ download_order' \in IterationOrders({w.idx : w \in Spawned})
            /\ Len(download_order') = total_queued'
       /\ (~AnySubmit /\ ~(show_download_modal /\ ~show_download_modal'))
             => download_order' = download_order]_vars

\* the task submitted second is Complete while the one submitted first is not finished,
\* in a batch submitted in descending order of ids
C16_Witness ==
    /\ Len(download_order) >= 2
    /\ downloads[download_order[1]].tag \in {"Pending", "Downloading"}
    /\ downloads[download_order[2]].tag = "Complete"
    /\ download_order[1] > download_order[2]

\* C17: every transition of a task into a terminal state comes with a repaint request
\* before the worker returns, and throttled progress repaint requests are issued at most
\* once per 100 ms interval while transfers are active.
C17_Repaint ==
    [][/\ \A i \in Ids :
            (downloads'[i] # downloads[i] /\ downloads'[i].tag \in TerminalTags)
            => repaint_requested'
       /\ (last_progress' # last_progress /\ last_progress # NoProgress)
            => last_progress'.at - last_progress.at >= RepaintIntervalMs]_vars

\* C18: immediately after a Submit of a non-empty batch the status map holds exactly the
\* batch's ids, each Pending, download_order lists them, the five counters and
\* downloaded_bytes are 0, total_queued is the batch size and total_bytes the sum of the
\* expected sizes.
C18_InitPostState ==
    [][SubmitStep =>
         LET ids == {w.idx : w \in Spawned}
         IN /\ \A i \in Ids : downloads'[i] = IF i \in ids THEN Pending ELSE NoEntry
            /\ Range(download_order') = ids
            /\ Len(download_order') = Cardinality(ids)
            /\ active_count' = 0
            /\ completed_count' = 0
            /\ failed_count' = 0
            /\ skipped_count' = 0
            /\ cancelled_count' = 0
            /\ downloaded_bytes' = 0
            /\ total_queued' = Cardinality(ids)
            /\ total_bytes' = SumSizes(ids)]_vars

AllWithTag(t) == Cardinality({i \in Ids : downloads[i].tag = t})

\* C19: in every reachable state completed_count, failed_count, skipped_count and
\* cancelled_count equal the number of ids whose status is Complete, Failed, Skipped
\* and Cancelled, and active_count equals the number of ids whose status is Downloading.
C19_CountersMirror ==
    /\ completed_count = AllWithTag("Complete")
    /\ failed_count = AllWithTag("Failed")
    /\ skipped_count = AllWithTag("Skipped")
    /\ cancelled_count = AllWithTag("Cancelled")
    /\ active_count = AllWithTag("Downloading")

\* C20: RetryFailed resets to Pending exactly the ids it resubmits, lowers failed_count
\* by exactly their number, and leaves failed_count equal to the number of ids that are
\* still Failed (a Failed id that the catalog no longer holds is not resubmitted and
\* stays counted).
C20_RetryCounter ==
    [][RetryStep =>
         LET ids == {w.idx : w \in Spawned}
         IN /\ \A i \in Ids : downloads'[i] = IF i \in ids THEN Pending ELSE downloads[i]
            /\ failed_count' = failed_count - Cardinality(ids)
            /\ failed_count' = Cardinality({i \in Ids : downloads'[i].tag = "Failed"})]_vars

\* a step of close_download_modal
ClearStep == show_download_modal /\ ~show_download_modal'

\* C21: after close_download_modal the status map and download_order are empty and
\* every aggregate field of the store, total_bytes and downloaded_bytes included, is 0;
\* no other step removes an entry from the status map.
C21_ClearEmptiesStore ==
    [][/\ ClearStep =>
            /\ \A i \in Ids : downloads'[i] = NoEntry
            /\ download_order' = <<>>
            /\ total_queued' = 0
            /\ active_count' = 0
            /\ completed_count' = 0
            /\ failed_count' = 0
            /\ skipped_count' = 0
            /\ cancelled_count' = 0
            /\ total_bytes' = 0
            /\ downloaded_bytes' = 0
       /\ ~ClearStep =>
            \A i \in Ids : downloads[i] # NoEntry => downloads'[i] # NoEntry]_vars

\* C22: a worker that gets its permit after its batch's token was raised, with its task
\* still Pending, sets the task Cancelled and returns in that step: it never sets
\* Downloading, does not look at the destination and issues no request, so even a task
\* with skip_existing and an existing file ends Cancelled, not Skipped.
C22_StartAfterCancel ==
    [][\A w \in workers :
         (w.pc = "queued" /\ Moves(w) /\ w.batch \in raised
                          /\ downloads[w.idx].tag = "Pending")
         => /\ ReturnsAtStart(w)
            /\ downloads'[w.idx] = Cancelled
            /\ cancelled_count' = cancelled_count + 1
            /\ UNCHANGED <<active_count, skipped_count, downloaded_bytes, exists>>]_vars

\* a cancelled batch has finished and a task whose file was on disk all along, and was
\* submitted with skip_existing, is Cancelled
C22_Witness ==
    /\ cancel_token \in raised
    /\ workers = {}
    /\ skipped_count = 0
    /\ completed_count = 0
    /\ \E i \in BatchIds \cap exists : downloads[i].tag = "Cancelled"

\* worker w returns in this step
Leaves(w) == \A v \in workers' : v.batch # w.batch \/ v.idx # w.idx

\* C23: a destination file is only written by a worker whose response stream has ended,
\* and only its own; a worker that ends Cancelled, or that fails while its request is
\* pending, wrote nothing; a worker sets Complete only after its write succeeded.
C23_NoPartialFile ==
    [][/\ exists' # exists =>
            \E w \in workers :
                /\ w.pc = "stream" /\ Moves(w)
                /\ exists' = exists \cup {w.idx}
                /\ \/ \E v \in workers' : v.batch = w.batch /\ v.idx = w.idx /\ v.pc = "written"
                   \/ Leaves(w) /\ downloads'[w.idx] = Failed
       /\ \A w \in workers :
            (Moves(w) /\ Leaves(w) /\ downloads'[w.idx] = Cancelled)
            => exists' = exists /\ w.pc # "written"
       /\ \A w \in workers :
            (Moves(w) /\ w.pc = "sending") => exists' = exists
       /\ \A w \in workers :
            (Moves(w) /\ Leaves(w) /\ w.pc # "queued" /\ downloads'[w.idx] = Complete)
            => w.pc = "written" /\ w.idx \in exists]_vars

\* a finished batch with a Complete task whose file exists and a Cancelled task whose
\* file does not
C23_Witness ==
    /\ workers = {}
    /\ \E i \in BatchIds : downloads[i].tag = "Cancelled" /\ i \notin exists
    /\ \E j \in BatchIds : downloads[j].tag = "Complete" /\ j \in exists

\* C24: every worker spawned by RetryFailed has skip_existing = false, so while a
\* retried task's worker is alive, and when it returns, the task's status is never
\* Skipped, whether or not its file exists.
C24_RetryRefetches ==
    [][\A w \in workers : ~w.skip => downloads'[w.idx].tag # "Skipped"]_vars

\* slots of a batch's semaphore that are taken
HeldSlots(b) == SemaphorePermits - permits[b]

\* the step takes a slot of w's batch for w, gives w's slot back, or does both
SlotEffect(w) ==
    IF w.pc = "queued"
    THEN /\ permits[w.batch] > 0
         /\ permits' = IF Leaves(w) THEN permits
                       ELSE [permits EXCEPT ![w.batch] = @ - 1]
    ELSE permits' = IF Leaves(w) THEN [permits EXCEPT ![w.batch] = @ + 1]
                    ELSE permits

\* w waits in sem.acquire() while fewer than four workers of its batch hold a slot
SlotFree(w) == w.pc = "queued" /\ Cardinality(InFlight(w.batch)) < SemaphorePermits

\* C25: a worker takes a slot of its batch's semaphore before its cancellation and
\* skip checks and gives it back when it returns, whatever the outcome; the slots
\* held in a batch are always as many as its workers between acquire and return;
\* no slot is lost, so a waiting worker can start as soon as fewer than four workers
\* of its batch are running.
C25_SlotRelease ==
    /\ [](\A b \in 1 .. cancel_token : HeldSlots(b) = Cardinality(InFlight(b)))
    /\ [][\A w \in workers :
            /\ Moves(w) => SlotEffect(w)
            /\ (Moves(w) /\ Leaves(w)) => downloads'[w.idx].tag \in TerminalTags]_vars
    /\ [](\A w \in workers : SlotFree(w) => ENABLED Start(w))

\* the batch of five is over with every outcome present: each worker has had a slot
\* and all four slots are back
C25_Witness ==
    /\ spawned = NumMaps
    /\ workers = {}
    /\ HeldSlots(cancel_token) = 0
    /\ \A t \in TerminalTags : CountTag(t) > 0

\* C26: download_selected never runs while a worker of an earlier batch is still
\* running: at a Submit no id is Pending or Downloading and no spawned worker is left.
C26_NoOverlap ==
    [][AnySubmit =>
         /\ \A i \in Ids : downloads[i].tag \notin {"Pending", "Downloading"}
         /\ workers = {}]_vars

\* C27: for each id at most one spawned worker has not yet returned.
C27_OneWorkerPerId ==
    \A w, v \in workers : w.idx = v.idx => w = v

\* C28: active_count is never decremented at 0: a step that lowers active_count is a
\* step of a worker that had raised it (it is past Downloading(0, 0)), lowers it by
\* exactly 1 from a positive value, and the counter is set to 0 only at 0.
C28_NoUnderflow ==
    [][active_count' < active_count =>
         /\ active_count > 0
         /\ active_count' = active_count - 1
         /\ \E w \in workers : w.pc # "queued" /\ Moves(w) /\ Leaves(w)]_vars

\* C29: is_downloading is false exactly when every spawned worker has written its
\* terminal status and returned.
C29_IdleExact ==
    ~IsDownloading <=> workers = {}

\* C30: every worker that has not returned holds the token stored in App.cancel_token.
C30_CancelReachesAll ==
    \A w \in workers : w.batch = cancel_token

====
